---- MODULE Spec2Model ----
(***************************************************************************)
(* Model of best-invidious-server: the latency prober (_iter_ping), the    *)
(* ranker (_best_servers), the cache artifact (.cache.json), the           *)
(* background refresh task (_BackgroundRunner.run_bg_task) and the request  *)
(* handlers (best_server, best_servers) of src/app.py.                     *)
(*                                                                         *)
(* Spec      the running application: the background task on the event     *)
(*           loop, request handlers in pool threads, the shared cache.     *)
(*           Every refresh runs with the default probe parameters, as      *)
(*           every caller in app.py passes none.                           *)
(* RankSpec  one call of _best_servers(count, max_retries) with arguments   *)
(*           drawn from bounded sets, its workers stepping ping by ping.   *)
(***************************************************************************)
EXTENDS Integers, Sequences, FiniteSets, TLC

VARIABLES
    skip_list,   \* app.py:24-26  the exclusion list read from SKIP_LIST
    cache_json,  \* the file .cache.json: [exists, text]
    runner,      \* runner._best_servers: the warm-up string or the loaded dict
    bg_pc,       \* position of run_bg_task: "refresh", "load", "sleep", "dead"
    req,         \* per pool thread: the request it serves and its response
    rf,          \* per caller: the locals of its running _best_servers call
    wk,          \* RankSpec: the locals of each submitted _iter_ping call
    pinged       \* history: the hosts ping() was ever called on

vars == <<skip_list, cache_json, runner, bg_pc, req, rf, wk, pinged>>

----------------------------------------------------------------------------
(* Bounds and program constants *)

Hosts == {"a", "b"}
MaxServers == 2      \* Spec: longest candidate list the Endpoint Source returns
MaxCandidates == 3   \* RankSpec: longest candidate list
MaxLat == 2          \* ping() delays are 1..MaxLat; 0 stands for a falsy return
MaxCount == 2        \* RankSpec: largest count argument
MaxRetries == 1      \* RankSpec: largest max_retries argument
DefaultCount == 10
DefaultMaxRetries == 1
\* threads of the ThreadPoolExecutor of a ranking call (app.py:100)
PoolSize == 2

Handlers == {"h1"}
AppProcs == {"bg"} \cup Handlers
Procs == AppProcs \cup {"call"}

\* Python's order on the host strings
HostOrd(h) == IF h = "a" THEN 1 ELSE IF h = "b" THEN 2 ELSE 3

Max(x, y) == IF x >= y THEN x ELSE y

RECURSIVE GCD(_, _)
GCD(x, y) == IF y = 0 THEN x ELSE GCD(y, x % y)

RECURSIVE SeqSum(_)
SeqSum(s) == IF s = <<>> THEN 0 ELSE Head(s) + SeqSum(Tail(s))

\* sequences over S of length at most n
SeqsUpTo(S, n) == UNION {[1..k -> S] : k \in 0..n}

----------------------------------------------------------------------------
(* Floats are exact fractions <<numerator, denominator>> in lowest terms *)

Frac(n, d) == LET g == GCD(n, d) IN <<n \div g, d \div g>>
FracLess(x, y) == x[1] * y[2] < y[1] * x[2]

\* statistics.mean over a non-empty list
Mean(xs) == Frac(SeqSum(xs), Len(xs))

----------------------------------------------------------------------------
(* _iter_ping: app.py:56-72 (best-invidious-server.py:13-25 is the same     *)
(* loop without the skip_list test)                                        *)

NoneRet == [tag |-> "None", mean |-> <<0, 1>>, server |-> ""]
RaiseRet == [tag |-> "StatisticsError", mean |-> <<0, 1>>, server |-> ""]
TupleRet(m, s) == [tag |-> "tuple", mean |-> m, server |-> s]

\* the locals of one _iter_ping call; hist is the history of ping() returns
IterStart(server) ==
    [server |-> server, pc |-> "queued", it |-> 0, down |-> 0,
     local_results |-> <<>>, hist |-> <<>>, ret |-> NoneRet]

\* lines 58-59: an excluded server returns None before any ping
IterEnterNoSkip(st) == [st EXCEPT !.pc = "loop"]

IterEnter(st) ==
    IF st.server \in skip_list
    THEN [st EXCEPT !.pc = "done", !.ret = NoneRet]
    ELSE [st EXCEPT !.pc = "loop"]

\* lines 63-71: one iteration of the loop, ping() having returned ms
PingIterResetting(st, ms, max_retries) ==
    IF ms # 0
    THEN [st EXCEPT !.it = @ + 1, !.hist = Append(@, ms), !.down = 0,
                    !.local_results = Append(@, ms)]
    ELSE IF st.down + 1 > max_retries
         THEN [st EXCEPT !.hist = Append(@, ms), !.down = @ + 1,
                         !.pc = "done", !.ret = NoneRet]
         ELSE [st EXCEPT !.it = @ + 1, !.hist = Append(@, ms), !.down = @ + 1]

\* a failed probe that is repeated without using up one of the count turns
PingIterRetrying(st, ms, max_retries) ==
    IF ms # 0
    THEN [st EXCEPT !.it = @ + 1, !.hist = Append(@, ms),
                    !.local_results = Append(@, ms)]
    ELSE IF st.down + 1 > max_retries
         THEN [st EXCEPT !.hist = Append(@, ms), !.down = @ + 1,
                         !.pc = "done", !.ret = NoneRet]
         ELSE [st EXCEPT !.hist = Append(@, ms), !.down = @ + 1]

PingIter(st, ms, max_retries) ==
    IF ms # 0
    THEN [st EXCEPT !.it = @ + 1, !.hist = Append(@, ms),
                    !.local_results = Append(@, ms)]
    ELSE IF st.down + 1 > max_retries
         THEN [st EXCEPT !.hist = Append(@, ms), !.down = @ + 1,
                         !.pc = "done", !.ret = NoneRet]
         ELSE [st EXCEPT !.it = @ + 1, !.hist = Append(@, ms), !.down = @ + 1]

\* line 72: the loop ran count times; statistics.mean raises on an empty list
IterReturn(st) ==
    [st EXCEPT !.pc = "done",
               !.ret = IF st.local_results = <<>> THEN RaiseRet
                       ELSE TupleRet(Mean(st.local_results), st.server)]

\* the whole call, ping() returning run[1], run[2], ... in turn
RECURSIVE IterLoop(_, _, _, _)
IterLoop(st, count, max_retries, run) ==
    IF st.pc = "done" THEN st
    ELSE IF st.it = count THEN IterReturn(st)
    ELSE IterLoop(PingIter(st, run[Len(st.hist) + 1], max_retries),
                  count, max_retries, run)

IterPing(server, count, max_retries, run) ==
    IterLoop(IterEnter(IterStart(server)), count, max_retries, run)

----------------------------------------------------------------------------
(* Ranking: app.py:107-109 *)

\* Python's tuple order on (mean, server)
TupleLessByMean(x, y) == FracLess(x.mean, y.mean)

TupleLess(x, y) ==
    \/ FracLess(x.mean, y.mean)
    \/ x.mean = y.mean /\ HostOrd(x.server) < HostOrd(y.server)

RECURSIVE Insert(_, _)
Insert(x, s) ==
    IF s = <<>> THEN <<x>>
    ELSE IF TupleLess(x, Head(s)) THEN <<x>> \o s
    ELSE <<Head(s)>> \o Insert(x, Tail(s))

\* sorted(...): stable, ascending
RECURSIVE Sorted(_)
Sorted(s) == IF s = <<>> THEN <<>> ELSE Insert(s[Len(s)], Sorted(SubSeq(s, 1, Len(s) - 1)))

\* [x for x in results if x]
Truthy(results) == SelectSeq(results, LAMBDA r : r.tag = "tuple")

\* f'https://{x[0]}'
Origin(host) == <<"https://", host>>

\* x[::-1] and the origin prefix: (mean, server) -> (origin, mean)
Pairs(s) == [i \in 1..Len(s) |-> <<Origin(s[i].server), s[i].mean>>]

Keys(d) == {d[i][1] : i \in 1..Len(d)}

\* dict insertion: a new key goes last, a known key keeps its place and
\* takes the new value
DictSet(d, kv) ==
    IF kv[1] \in Keys(d)
    THEN [i \in 1..Len(d) |-> IF d[i][1] = kv[1] THEN kv ELSE d[i]]
    ELSE Append(d, kv)

RECURSIVE OrderedDict(_)
OrderedDict(ps) ==
    IF ps = <<>> THEN <<>>
    ELSE DictSet(OrderedDict(SubSeq(ps, 1, Len(ps) - 1)), ps[Len(ps)])

Ranking(results) == OrderedDict(Pairs(Sorted(Truthy(results))))

----------------------------------------------------------------------------
(* The cache artifact: json.dump / json.load over a text of tokens *)

OpenTok == [t |-> "{", k |-> <<"", "">>, v |-> <<0, 1>>]
CloseTok == [t |-> "}", k |-> <<"", "">>, v |-> <<0, 1>>]
NulTok == [t |-> "nul", k |-> <<"", "">>, v |-> <<0, 1>>]
ItemTok(kv) == [t |-> "item", k |-> kv[1], v |-> kv[2]]

JsonDump(d) == <<OpenTok>> \o [i \in 1..Len(d) |-> ItemTok(d[i])] \o <<CloseTok>>

JsonValid(text) ==
    /\ Len(text) >= 2
    /\ text[1].t = "{"
    /\ text[Len(text)].t = "}"
    /\ \A i \in 2..(Len(text) - 1) : text[i].t = "item"

JsonLoad(text) ==
    OrderedDict([i \in 1..(Len(text) - 2) |-> <<text[i + 1].k, text[i + 1].v>>])

\* write(toks) at offset off of a file holding text
WriteAt(text, off, toks) ==
    [i \in 1..Max(Len(text), off + Len(toks)) |->
        IF i > off /\ i <= off + Len(toks) THEN toks[i - off]
        ELSE IF i <= Len(text) THEN text[i]
        ELSE NulTok]

----------------------------------------------------------------------------
(* ping() returns fed to a whole _iter_ping call at once: every delay of a  *)
(* run is the same lat, and the falsy returns sit at the positions in F.    *)
(* A call stops at failure max_retries + 1, so F has at most that many      *)
(* positions.                                                               *)

FailSets(count, k) == {F \in SUBSET (1..count) : Cardinality(F) <= k}

PingRuns(count, max_retries) ==
    {[i \in 1..count |-> IF i \in F THEN 0 ELSE lat] :
        lat \in 1..MaxLat, F \in FailSets(count, max_retries + 1)}

\* what a caller sees of a finished call: its return value, and whether it pinged
Outcome(st) == [ret |-> st.ret, sent |-> st.hist # <<>>]

\* every outcome of the loop of a call that got past the skip_list test; a
\* table over the arguments the application calls with, computed once
LoopTable ==
    {<<a, {Outcome(IterLoop([IterStart(a[1]) EXCEPT !.pc = "loop"], a[2], a[3], run)) :
              run \in PingRuns(a[2], a[3])}>> :
        a \in Hosts \X {DefaultCount} \X {DefaultMaxRetries}}

LoopOutcomes(server, count, max_retries) ==
    LET st == IterEnter(IterStart(server))
    IN IF st.pc = "done" THEN {Outcome(st)}
       ELSE (CHOOSE e \in LoopTable : e[1] = <<server, count, max_retries>>)[2]

----------------------------------------------------------------------------
(* State of the application *)

IdleRf ==
    [pc |-> "idle", count |-> 0, max_retries |-> 0, servers |-> <<>>,
     results |-> <<>>, failed |-> FALSE, ranking |-> <<>>, woff |-> 0]

\* entry of _best_servers(count, max_retries): app.py:75-80
CallBestServers(count, max_retries) ==
    [IdleRf EXCEPT !.pc = "fetch", !.count = count, !.max_retries = max_retries]

NoKey == <<"", "">>
IdleReq == [pc |-> "idle", kind |-> "", count |-> DefaultCount,
            max_retries |-> DefaultMaxRetries, status |-> 0, exc |-> "",
            target |-> NoKey, items |-> <<>>]

\* app.py:184: runner = _BackgroundRunner('Warming up... Try again in a minute...')
WarmingUp == [type |-> "str", items |-> <<>>]
DictValue(d) == [type |-> "dict", items |-> d]

\* the candidate lists the Endpoint Source fetch and filter can yield
CandidateLists(p) == SeqsUpTo(Hosts, IF p = "call" THEN MaxCandidates ELSE MaxServers)

SkipLists == {{}, {"b"}}

\* run_bg_task calls _best_servers() synchronously inside the coroutine
\* (app.py:50): until it reaches `await asyncio.sleep` (or dies) the event
\* loop runs nothing else: no request is accepted and no response is sent.
LoopFree == bg_pc \in {"sleep", "dead"}

Init ==
    /\ skip_list \in SkipLists
    /\ cache_json = [exists |-> FALSE, text |-> <<>>]
    /\ runner = WarmingUp
    /\ bg_pc = "refresh"
    /\ req = [h \in Handlers |-> IdleReq]
    /\ rf = [p \in Procs |->
               IF p = "bg" THEN CallBestServers(DefaultCount, DefaultMaxRetries)
               ELSE IdleRf]
    /\ wk = <<>>
    /\ pinged = {}

----------------------------------------------------------------------------
(* How a _best_servers call ends for its caller *)

\* an exception leaves _best_servers: run_bg_task has no handler, so the
\* task ends (app.py:45-53); in a request handler the request fails (500)
Raises(p, exc) ==
    /\ rf' = [rf EXCEPT ![p] = IF p = "call" THEN [rf[p] EXCEPT !.pc = exc]
                                ELSE IF p = "bg" THEN [IdleRf EXCEPT !.pc = exc]
                                ELSE IdleRf]
    /\ bg_pc' = IF p = "bg" THEN "dead" ELSE bg_pc
    /\ req' = IF p \in Handlers
              THEN [req EXCEPT ![p] = [@ EXCEPT !.pc = "done", !.status = 500,
                                                !.exc = exc]]
              ELSE req

\* app.py:115-125 and the callers' next line (app.py:51, app.py:170)
Returns(p, d) ==
    /\ rf' = [rf EXCEPT ![p] = IF p = "call" THEN [rf[p] EXCEPT !.pc = "returned"]
                                ELSE IdleRf]
    /\ bg_pc' = IF p = "bg" THEN "load" ELSE bg_pc
    /\ req' = IF p \in Handlers
              THEN [req EXCEPT ![p] = [@ EXCEPT !.pc = "done", !.status = 200,
                                                !.items = d]]
              ELSE req

----------------------------------------------------------------------------
(* _best_servers: app.py:75-125 *)

\* lines 82-97: the fetch and the filter yield the candidate list
FetchOk(p) ==
    /\ rf[p].pc = "fetch"
    /\ \E servers \in CandidateLists(p) :
          rf' = [rf EXCEPT ![p] = [@ EXCEPT !.pc = "probe", !.servers = servers]]
    /\ UNCHANGED <<skip_list, cache_json, runner, bg_pc, req, wk, pinged>>

\* lines 82-83: urlopen or json.loads raises
FetchFailsAfterOpen(p) ==
    /\ rf[p].pc = "fetch"
    /\ Raises(p, "URLError")
    /\ cache_json' = [exists |-> TRUE, text |-> <<>>]
    /\ UNCHANGED <<skip_list, runner, wk, pinged>>

FetchFails(p) ==
    /\ rf[p].pc = "fetch"
    /\ Raises(p, "URLError")
    /\ UNCHANGED <<skip_list, cache_json, runner, wk, pinged>>

\* all permutations of 1..n: the orders in which as_completed can yield
Perms(n) == {f \in [1..n -> 1..n] : \A i, j \in 1..n : i # j => f[i] # f[j]}

\* lines 99-109 as one step: every submitted _iter_ping call runs to its end,
\* the results arrive in some completion order, and the ranking is built.
\* The calls share no state (each reads skip_list and its own locals).
RankAll(p) ==
    /\ rf[p].pc = "probe"
    /\ LET servers == rf[p].servers
           n == Len(servers)
           choices == {o \in [1..n -> UNION {LoopOutcomes(servers[i], rf[p].count,
                                                          rf[p].max_retries) : i \in 1..n}] :
                          \A i \in 1..n : o[i] \in LoopOutcomes(servers[i], rf[p].count,
                                                                rf[p].max_retries)}
           ends == {[results |-> [k \in 1..n |-> o[order[k]].ret],
                     sent |-> {servers[i] : i \in {j \in 1..n : o[j].sent}}] :
                       o \in choices, order \in Perms(n)}
           outs == {[raised |-> \E k \in 1..n : e.results[k].tag = "StatisticsError",
                     ranking |-> Ranking(e.results), sent |-> e.sent] : e \in ends}
       IN \E out \in outs :
             /\ pinged' = pinged \cup out.sent
             /\ IF out.raised
                THEN Raises(p, "StatisticsError")
                ELSE /\ rf' = [rf EXCEPT ![p] =
                                 [@ EXCEPT !.pc = "open", !.servers = <<>>,
                                           !.ranking = out.ranking]]
                     /\ UNCHANGED <<bg_pc, req>>
    /\ UNCHANGED <<skip_list, cache_json, runner, wk>>

\* line 111: open('.cache.json', 'w') creates or truncates the file
OpenCache(p) ==
    /\ rf[p].pc = "open"
    /\ cache_json' = [exists |-> TRUE, text |-> <<>>]
    /\ rf' = [rf EXCEPT ![p] = [@ EXCEPT !.pc = "write", !.woff = 0]]
    /\ UNCHANGED <<skip_list, runner, bg_pc, req, wk, pinged>>

\* line 112: json.dump writes through a buffer, which may be flushed to the
\* file before the text is complete
Flush(p) ==
    /\ rf[p].pc = "write"
    /\ LET text == JsonDump(rf[p].ranking)
       IN \E k \in (rf[p].woff + 1)..(Len(text) - 1) :
             /\ cache_json' = [cache_json EXCEPT !.text =
                   WriteAt(@, rf[p].woff, SubSeq(text, rf[p].woff + 1, k))]
             /\ rf' = [rf EXCEPT ![p] = [@ EXCEPT !.woff = k]]
    /\ UNCHANGED <<skip_list, runner, bg_pc, req, wk, pinged>>

\* lines 111-116: leaving the with block flushes the rest and closes the
\* file; _best_servers returns the ranking
CloseCache(p) ==
    /\ rf[p].pc = "write"
    /\ LET text == JsonDump(rf[p].ranking)
       IN cache_json' = [cache_json EXCEPT !.text =
             WriteAt(@, rf[p].woff, SubSeq(text, rf[p].woff + 1, Len(text)))]
    /\ Returns(p, rf[p].ranking)
    /\ UNCHANGED <<skip_list, runner, wk, pinged>>

----------------------------------------------------------------------------
(* _BackgroundRunner.run_bg_task: app.py:45-53 *)

\* lines 51-53: the cache file is loaded into runner._best_servers, then the
\* task sleeps; a file that does not parse raises and ends the task
BgLoad ==
    /\ bg_pc = "load"
    /\ IF cache_json.exists /\ JsonValid(cache_json.text)
       THEN /\ runner' = DictValue(JsonLoad(cache_json.text))
            /\ bg_pc' = "sleep"
       ELSE /\ bg_pc' = "dead"
            /\ UNCHANGED runner
    /\ UNCHANGED <<skip_list, cache_json, req, rf, wk, pinged>>

\* lines 46-50, 53: the sleep ends and the next iteration calls _best_servers()
BgWake ==
    /\ bg_pc = "sleep"
    /\ bg_pc' = "refresh"
    /\ rf' = [rf EXCEPT !["bg"] = CallBestServers(DefaultCount, DefaultMaxRetries)]
    /\ UNCHANGED <<skip_list, cache_json, runner, req, wk, pinged>>

----------------------------------------------------------------------------
(* Request handlers: app.py:140-174 *)

Kinds == {"best_server", "best_servers", "markdown"}

\* the query parameters of GET /api/v1/best (app.py:162-165): the defaults,
\* or values supplied with the request
QueryParams(kind) ==
    IF kind = "markdown"
    THEN {[count |-> DefaultCount, max_retries |-> DefaultMaxRetries],
          [count |-> MaxCount, max_retries |-> 0]}
    ELSE {[count |-> DefaultCount, max_retries |-> DefaultMaxRetries]}

\* a request reaches the server socket
Arrive(h) ==
    /\ req[h].pc = "idle"
    /\ \E kind \in Kinds : \E q \in QueryParams(kind) :
          req' = [req EXCEPT ![h] = [IdleReq EXCEPT !.pc = "queued", !.kind = kind,
                                                    !.count = q.count,
                                                    !.max_retries = q.max_retries]]
    /\ UNCHANGED <<skip_list, cache_json, runner, bg_pc, rf, wk, pinged>>

\* the event loop accepts the request and hands the handler to a pool thread;
\* best_servers(return_markdown=True) calls _best_servers(return_markdown=True)
\* (app.py:168-169): count, max_retries and timeout are not passed on, so the
\* call runs with the defaults of app.py:75-77
Dispatch(h) ==
    /\ req[h].pc = "queued"
    /\ LoopFree
    /\ req' = [req EXCEPT ![h] = [@ EXCEPT !.pc = "run"]]
    /\ rf' = IF req[h].kind = "markdown"
             THEN [rf EXCEPT ![h] = CallBestServers(DefaultCount, DefaultMaxRetries)]
             ELSE rf
    /\ UNCHANGED <<skip_list, cache_json, runner, bg_pc, wk, pinged>>

MinVal(d) == CHOOSE v \in {d[i][2] : i \in 1..Len(d)} :
                \A i \in 1..Len(d) : ~FracLess(d[i][2], v)

\* app.py:144-147: the first key whose value is the minimum
BestOf(value) ==
    IF value.type # "dict" THEN [exc |-> "AttributeError", target |-> NoKey]
    ELSE LET d == value.items
             hits == SelectSeq(d, LAMBDA kv : kv[2] = MinVal(d))
         IN IF hits = <<>> THEN [exc |-> "IndexError", target |-> NoKey]
            ELSE [exc |-> "", target |-> hits[1][1]]

\* a selection that takes the chosen entry out of the cached ranking
BestServerPopping(h) ==
    /\ req[h].pc = "run"
    /\ req[h].kind = "best_server"
    /\ LET b == BestOf(runner)
       IN /\ req' = [req EXCEPT ![h] =
                      [@ EXCEPT !.pc = "done", !.exc = b.exc, !.target = b.target,
                                !.status = IF b.exc = "" THEN 307 ELSE 500]]
          /\ runner' = IF b.exc = ""
                       THEN [runner EXCEPT !.items =
                               SelectSeq(@, LAMBDA kv : kv[1] # b.target)]
                       ELSE runner
    /\ UNCHANGED <<skip_list, cache_json, bg_pc, rf, wk, pinged>>

\* app.py:143-158
BestServer(h) ==
    /\ req[h].pc = "run"
    /\ req[h].kind = "best_server"
    /\ LET b == BestOf(runner)
       IN req' = [req EXCEPT ![h] =
                    [@ EXCEPT !.pc = "done", !.exc = b.exc, !.target = b.target,
                              !.status = IF b.exc = "" THEN 307 ELSE 500]]
    /\ UNCHANGED <<skip_list, cache_json, runner, bg_pc, rf, wk, pinged>>

\* app.py:171-174: the handler reads the cache file itself
ReadCache ==
    IF ~cache_json.exists THEN [exc |-> "FileNotFoundError", items |-> <<>>]
    ELSE IF ~JsonValid(cache_json.text) THEN [exc |-> "JSONDecodeError", items |-> <<>>]
    ELSE [exc |-> "", items |-> JsonLoad(cache_json.text)]

BestServers(h) ==
    /\ req[h].pc = "run"
    /\ req[h].kind = "best_servers"
    /\ LET r == ReadCache
       IN req' = [req EXCEPT ![h] =
                    [@ EXCEPT !.pc = "done", !.exc = r.exc, !.items = r.items,
                              !.status = IF r.exc = "" THEN 200 ELSE 500]]
    /\ UNCHANGED <<skip_list, cache_json, runner, bg_pc, rf, wk, pinged>>

\* the event loop sends the response
Respond(h) ==
    /\ req[h].pc = "done"
    /\ LoopFree
    /\ req' = [req EXCEPT ![h] = IdleReq]
    /\ UNCHANGED <<skip_list, cache_json, runner, bg_pc, rf, wk, pinged>>

----------------------------------------------------------------------------

Next ==
    \/ \E p \in AppProcs : FetchOk(p)
    \/ \E p \in AppProcs : FetchFails(p)
    \/ \E p \in AppProcs : RankAll(p)
    \/ \E p \in AppProcs : OpenCache(p)
    \/ \E p \in AppProcs : Flush(p)
    \/ \E p \in AppProcs : CloseCache(p)
    \/ BgLoad
    \/ BgWake
    \/ \E h \in Handlers : Arrive(h)
    \/ \E h \in Handlers : Dispatch(h)
    \/ \E h \in Handlers : BestServer(h)
    \/ \E h \in Handlers : BestServers(h)
    \/ \E h \in Handlers : Respond(h)

Spec == Init /\ [][Next]_vars

----------------------------------------------------------------------------
(* RankSpec: one call of _best_servers(count, max_retries), the arguments    *)
(* drawn from bounded sets, each submitted _iter_ping call stepping ping by *)
(* ping with any delay or falsy return                                      *)

RankInit ==
    /\ skip_list \in SkipLists
    /\ cache_json = [exists |-> FALSE, text |-> <<>>]
    /\ runner = WarmingUp
    /\ bg_pc = "off"
    /\ req = [h \in Handlers |-> IdleReq]
    /\ \E count \in 0..MaxCount, max_retries \in 0..MaxRetries :
          rf = [p \in Procs |-> IF p = "call" THEN CallBestServers(count, max_retries)
                                ELSE IdleRf]
    /\ wk = <<>>
    /\ pinged = {}

\* lines 99-103: one future per candidate
Submit ==
    /\ rf["call"].pc = "probe"
    /\ wk' = [i \in 1..Len(rf["call"].servers) |-> IterStart(rf["call"].servers[i])]
    /\ rf' = [rf EXCEPT !["call"] = [@ EXCEPT !.pc = "collect"]]
    /\ UNCHANGED <<skip_list, cache_json, runner, bg_pc, req, pinged>>

\* the calls pool threads are running
Running == {j \in DOMAIN wk : wk[j].pc = "loop"}

\* lines 58-61: a free pool thread takes the oldest queued call (the
\* executor's work queue is first in, first out) and starts it
WorkerEnter(i) ==
    /\ wk[i].pc = "queued"
    /\ Cardinality(Running) < PoolSize
    /\ \A j \in 1..(i - 1) : wk[j].pc # "queued"
    /\ wk' = [wk EXCEPT ![i] = IterEnter(@)]
    /\ UNCHANGED <<skip_list, cache_json, runner, bg_pc, req, rf, pinged>>

\* lines 62-71: one iteration, ping() returning ms
WorkerPing(i) ==
    /\ wk[i].pc = "loop"
    /\ wk[i].it < rf["call"].count
    /\ \E ms \in 0..MaxLat :
          wk' = [wk EXCEPT ![i] = PingIter(@, ms, rf["call"].max_retries)]
    /\ pinged' = pinged \cup {wk[i].server}
    /\ UNCHANGED <<skip_list, cache_json, runner, bg_pc, req, rf>>

\* line 72: the loop is exhausted
WorkerReturn(i) ==
    /\ wk[i].pc = "loop"
    /\ wk[i].it = rf["call"].count
    /\ wk' = [wk EXCEPT ![i] = IterReturn(@)]
    /\ UNCHANGED <<skip_list, cache_json, runner, bg_pc, req, rf, pinged>>

\* lines 104-105: as_completed yields a finished future; future.result()
\* appends its value or re-raises its exception, which ends the for loop
Collect(i) ==
    /\ rf["call"].pc = "collect"
    /\ ~rf["call"].failed
    /\ wk[i].pc = "done"
    /\ wk' = [wk EXCEPT ![i] = [@ EXCEPT !.pc = "collected"]]
    /\ rf' = [rf EXCEPT !["call"] =
                IF wk[i].ret.tag = "StatisticsError"
                THEN [@ EXCEPT !.failed = TRUE]
                ELSE [@ EXCEPT !.results = Append(@, wk[i].ret)]]
    /\ UNCHANGED <<skip_list, cache_json, runner, bg_pc, req, pinged>>

AllFinished == \A i \in DOMAIN wk : wk[i].pc \in {"done", "collected"}
AllCollected == \A i \in DOMAIN wk : wk[i].pc = "collected"

\* line 100: leaving the executor's with block waits for every worker; the
\* exception then leaves _best_servers
CollectRaises ==
    /\ rf["call"].pc = "collect"
    /\ rf["call"].failed
    /\ AllFinished
    /\ Raises("call", "StatisticsError")
    /\ UNCHANGED <<skip_list, cache_json, runner, wk, pinged>>

\* a ranking built from whatever has been collected so far
BuildRankingEarly ==
    /\ rf["call"].pc = "collect"
    /\ ~rf["call"].failed
    /\ rf' = [rf EXCEPT !["call"] = [@ EXCEPT !.pc = "open",
                                              !.ranking = Ranking(rf["call"].results)]]
    /\ UNCHANGED <<skip_list, cache_json, runner, bg_pc, req, wk, pinged>>

\* lines 104-105: the for loop over as_completed has ended without raising
BuildReady ==
    /\ rf["call"].pc = "collect"
    /\ ~rf["call"].failed
    /\ AllCollected

\* lines 107-109
BuildRanking ==
    /\ BuildReady
    /\ rf' = [rf EXCEPT !["call"] = [@ EXCEPT !.pc = "open",
                                              !.ranking = Ranking(rf["call"].results)]]
    /\ UNCHANGED <<skip_list, cache_json, runner, bg_pc, req, wk, pinged>>

RankNext ==
    \/ FetchOk("call")
    \/ FetchFails("call")
    \/ Submit
    \/ \E i \in DOMAIN wk : WorkerEnter(i)
    \/ \E i \in DOMAIN wk : WorkerPing(i)
    \/ \E i \in DOMAIN wk : WorkerReturn(i)
    \/ \E i \in DOMAIN wk : Collect(i)
    \/ CollectRaises
    \/ BuildRanking
    \/ OpenCache("call")
    \/ Flush("call")
    \/ CloseCache("call")

RankSpec == RankInit /\ [][RankNext]_vars

----------------------------------------------------------------------------
(* Properties *)

BestRequestDone(h) == req[h].pc = "done" /\ req[h].kind = "best_server"

\* C1: a best_server request served while runner._best_servers is still the
\* warm-up string (no refresh has published) gets a normal response, not an
\* error.
C1_WarmUpIsNormalResponse ==
    \A h \in Handlers :
        BestRequestDone(h) /\ runner = WarmingUp => req[h].status # 500

\* C2: once an empty ranking has been published, a best_server request gets a
\* normal response, not an error.
C2_EmptyRankingIsNormalResponse ==
    \A h \in Handlers :
        BestRequestDone(h) /\ runner = DictValue(<<>>) => req[h].status # 500

\* C3: the background task never ends: after every refresh cycle, a failed
\* one included, it is still refreshing, loading or sleeping, so that the
\* next cycle runs.
C3_SchedulerNeverStops == bg_pc # "dead"

\* C4: a step in which the Endpoint Source fetch of a refresh fails changes
\* neither the cache file nor runner._best_servers, so both readers still
\* return what they returned before.
FetchFailedStep ==
    \E p \in AppProcs :
        /\ rf[p].pc = "fetch"
        /\ rf'[p].pc # "fetch"
        /\ rf'[p].pc # "probe"

C4_StaleButAvailable ==
    [][FetchFailedStep =>
          /\ cache_json' = cache_json
          /\ runner' = runner
          /\ BestOf(runner)' = BestOf(runner)
          /\ ReadCache' = ReadCache]_vars

\* C4 witness: the background refresh failed at the fetch after an earlier
\* cycle had published a non-empty ranking, which both readers still see.
C4_Witness ==
    /\ bg_pc = "dead"
    /\ rf["bg"].pc = "URLError"
    /\ runner.type = "dict"
    /\ runner.items # <<>>
    /\ ReadCache.exc = ""
    /\ ReadCache.items = runner.items

CallArgs == rf["call"]
Finished(i) == wk[i].pc \in {"done", "collected"}
Falsy(hist) == Len(SelectSeq(hist, LAMBDA ms : ms = 0))

\* C5: a call whose count probes all failed without the failure count
\* exceeding max_retries returns None (Skipped), and the ranking call does
\* not end with the empty-mean error.
C5_ZeroSuccessIsSkipped ==
    /\ \A i \in DOMAIN wk :
          /\ Finished(i)
          /\ wk[i].local_results = <<>>
          /\ wk[i].down <= CallArgs.max_retries
          => wk[i].ret.tag = "None"
    /\ CallArgs.pc # "StatisticsError"

\* C6: a best_servers request that reads the cache file while a refresh is
\* publishing never finds a text that does not parse (empty, truncated or
\* partly written).
C6_AtomicPublish ==
    \A h \in Handlers :
        req[h].pc = "done" /\ req[h].kind = "best_servers"
            => req[h].exc # "JSONDecodeError"

\* C7: while the background refresh is in progress, a queued best_server
\* request can be taken up at once, without waiting for the refresh to end.
C7_ReadsNotBlocked ==
    \A h \in Handlers :
        /\ req[h].pc = "queued"
        /\ req[h].kind = "best_server"
        /\ bg_pc \in {"refresh", "load"}
        => ENABLED Dispatch(h)

Ascending(d) == \A i, j \in 1..Len(d) : i < j => ~FracLess(d[j][2], d[i][2])
NoDuplicates(d) == \A i, j \in 1..Len(d) : i # j => d[i][1] # d[j][1]
RankingBuilt == CallArgs.pc \in {"open", "write", "returned"}

\* C8: every ranking built by a ranking call, over any candidate list, is in
\* ascending order of mean latency and has no endpoint twice.
C8_SortedNoDuplicates ==
    RankingBuilt => Ascending(CallArgs.ranking) /\ NoDuplicates(CallArgs.ranking)

FileItems == IF JsonValid(cache_json.text) THEN JsonLoad(cache_json.text) ELSE <<>>

\* C10: no ping is ever sent to a host of the exclusion list, and no such
\* host is in a ranking that is built or written to the cache file.
C10_Exclusion ==
    /\ pinged \cap skip_list = {}
    /\ \A i \in DOMAIN wk : wk[i].server \in skip_list => wk[i].hist = <<>>
    /\ \A s \in skip_list :
          /\ Origin(s) \notin Keys(CallArgs.ranking)
          /\ Origin(s) \notin Keys(FileItems)

\* C10 witness: a ranking call over a list with an excluded candidate has
\* written its ranking, which holds another candidate.
C10_Witness ==
    /\ CallArgs.pc = "returned"
    /\ \E i \in DOMAIN wk : wk[i].server \in skip_list
    /\ FileItems # <<>>
    /\ pinged # {}

\* the values the submitted calls returned, in submission order
ReturnsInOrder == [i \in 1..Len(wk) |-> wk[i].ret]

\* C11: the ranking a call builds is the ranking of the values its probe
\* calls returned, whatever the order in which they completed and were
\* collected.
C11_CompletionOrderIndependent ==
    RankingBuilt => CallArgs.ranking = Ranking(ReturnsInOrder)

\* C11 witness: two measured calls were collected in the reverse of their
\* submission order, with equal means, and the ranking holds both.
C11_Witness ==
    /\ RankingBuilt
    /\ Len(wk) = 2
    /\ Len(CallArgs.ranking) = 2
    /\ CallArgs.results = <<wk[2].ret, wk[1].ret>>
    /\ wk[1].ret.mean = wk[2].ret.mean

\* the step in which an on-demand refresh of handler h completes
ManualRefreshCompletes(h) ==
    /\ req[h].kind = "markdown"
    /\ req[h].pc = "run"
    /\ req'[h].pc = "done"
    /\ req'[h].status = 200

\* C12: when an on-demand refresh completes while the periodic task sleeps
\* after a successful load, the ranking it produced is what the file holds
\* and what best_server reads (runner._best_servers), and the periodic task
\* is left as it was.
C12_ManualRefreshPublishes ==
    [][\A h \in Handlers :
          (ManualRefreshCompletes(h) /\ bg_pc = "sleep" /\ runner.type = "dict")
             => /\ ReadCache'.exc = ""
                /\ ReadCache'.items = req'[h].items
                /\ runner' = DictValue(req'[h].items)
                /\ bg_pc' = bg_pc]_vars

\* C13: the _best_servers call an on-demand refresh runs uses the count and
\* max_retries supplied with the request.
C13_OverridesAreUsed ==
    \A h \in Handlers :
       (req[h].kind = "markdown" /\ req[h].pc = "run")
          => /\ rf[h].count = req[h].count
             /\ rf[h].max_retries = req[h].max_retries

\* C14: no request ends in an error because the Endpoint Source fetch failed.
C14_UpstreamFailureContained ==
    \A h \in Handlers : req[h].pc = "done" => req[h].exc # "URLError"

\* C15: whenever the cached ranking is a non-empty dict, best_server finds an
\* endpoint, its latency is the minimum over the cached ranking, and it is the
\* first entry of the ranking.
C15_BestIsFirstEntry ==
    (runner.type = "dict" /\ runner.items # <<>>)
       => LET b == BestOf(runner)
          IN /\ b.exc = ""
             /\ \E i \in 1..Len(runner.items) :
                   /\ runner.items[i][1] = b.target
                   /\ runner.items[i][2] = MinVal(runner.items)
             /\ b.target = runner.items[1][1]

\* the step in which handler h finishes a best_server request
BestCompletes(h) ==
    /\ req[h].kind = "best_server"
    /\ req[h].pc = "run"
    /\ req'[h].pc = "done"

\* C16: a best_server call changes neither runner._best_servers nor the cache
\* file, and what it returns is determined by the cached value alone, so two
\* calls with no load between them return the same endpoint.
C16_BestIsIdempotent ==
    [][\A h \in Handlers :
          BestCompletes(h)
             => /\ runner' = runner
                /\ cache_json' = cache_json
                /\ req'[h].exc = BestOf(runner').exc
                /\ req'[h].target = BestOf(runner').target]_vars

\* C16 witness: a best_server request was answered with a redirect chosen
\* from a cached ranking of two endpoints
C16_Witness ==
    \E h \in Handlers :
       /\ req[h].pc = "done"
       /\ req[h].kind = "best_server"
       /\ req[h].status = 307
       /\ runner.type = "dict"
       /\ Len(runner.items) = 2
       /\ req[h].target = BestOf(runner).target

\* the endpoints the submitted calls measured
MeasuredKeys ==
    {Origin(wk[i].server) : i \in {j \in DOMAIN wk : /\ Finished(j)
                                                     /\ wk[j].ret.tag = "tuple"}}

\* C17: a ranking is built, and the cache file written, only after every
\* submitted _iter_ping call has finished and been collected; the ranking
\* holds every measured endpoint; and when a call raised, nothing is built
\* or written.
C17_FanOutBarrier ==
    /\ (RankingBuilt \/ cache_json.exists)
          => /\ AllCollected
             /\ Len(CallArgs.results) = Len(wk)
             /\ \A i \in DOMAIN wk : wk[i].ret.tag # "StatisticsError"
    /\ RankingBuilt => {kv[1] : kv \in {CallArgs.ranking[k] : k \in 1..Len(CallArgs.ranking)}}
                          = MeasuredKeys
    /\ CallArgs.pc = "StatisticsError" => AllFinished /\ ~cache_json.exists

\* C17 witness: a call over three candidates returned after writing a ranking
\* of two endpoints, the third call having returned None
C17_Witness ==
    /\ CallArgs.pc = "returned"
    /\ cache_json.exists
    /\ Len(wk) = 3
    /\ Len(CallArgs.ranking) = 2
    /\ \E i \in DOMAIN wk : wk[i].ret = NoneRet /\ wk[i].hist # <<>>

\* the ranking call has left _best_servers, by return or by exception
CallEnded == CallArgs.pc \in {"returned", "URLError", "StatisticsError"}

\* steps worker i still has to take, at most
WorkerLeft(i) ==
    CASE wk[i].pc = "queued" -> CallArgs.count + 3
      [] wk[i].pc = "loop" -> (CallArgs.count - wk[i].it) + 2
      [] wk[i].pc = "done" -> 1
      [] OTHER -> 0

\* some step of the ranking call is possible; BuildRanking, whose assignment
\* is always possible, is enabled exactly when BuildReady holds
CanStep ==
    \/ ENABLED (\/ FetchOk("call")
                \/ FetchFails("call")
                \/ Submit
                \/ \E i \in DOMAIN wk : WorkerEnter(i)
                \/ \E i \in DOMAIN wk : WorkerPing(i)
                \/ \E i \in DOMAIN wk : WorkerReturn(i)
                \/ \E i \in DOMAIN wk : Collect(i)
                \/ CollectRaises
                \/ OpenCache("call")
                \/ Flush("call")
                \/ CloseCache("call"))
    \/ BuildReady

RECURSIVE WorkersLeft(_)
WorkersLeft(n) == IF n = 0 THEN 0 ELSE WorkerLeft(n) + WorkersLeft(n - 1)

StageLeft ==
    CASE CallArgs.pc = "fetch" -> 5
      [] CallArgs.pc = "probe" -> 4
      [] CallArgs.pc = "collect" -> 3
      [] CallArgs.pc = "open" -> 2
      [] CallArgs.pc = "write" -> 1
      [] OTHER -> 0

\* a bound on the steps a ranking call can still take
Measure ==
    StageLeft * ((MaxCandidates + 1) * (MaxCount + 4))
    + (IF CallArgs.pc = "collect" THEN WorkersLeft(Len(wk)) ELSE 0)
    + (IF CallArgs.pc = "write"
       THEN Len(JsonDump(CallArgs.ranking)) - CallArgs.woff ELSE 0)

\* one submitted call per entry of the candidate list, each having sent at
\* most count probes; calls of excluded servers send none
OneCallPerCandidate ==
    CallArgs.pc \notin {"fetch", "probe", "URLError"}
       => /\ Len(wk) = Len(CallArgs.servers)
          /\ \A i \in DOMAIN wk :
                /\ wk[i].server = CallArgs.servers[i]
                /\ Len(wk[i].hist) <= CallArgs.count
                /\ wk[i].it <= CallArgs.count
          /\ Cardinality(Running) <= PoolSize

\* C18: a ranking call always ends when every ping() returns: until it has
\* ended some step is possible, also with more candidates than pool threads,
\* and every step brings it nearer its end; each candidate is handled by
\* exactly one _iter_ping call, which sends at most count probes.
C18_RankTerminates ==
    /\ [](CallEnded \/ CanStep)
    /\ []OneCallPerCandidate
    /\ [][Measure' < Measure]_vars

\* C18 witness: a call over more candidates than pool threads has returned,
\* every one of its _iter_ping calls having sent count probes
C18_Witness ==
    /\ CallArgs.pc = "returned"
    /\ Len(wk) > PoolSize
    /\ CallArgs.count = MaxCount
    /\ \A i \in DOMAIN wk : Len(wk[i].hist) = CallArgs.count

\* some _best_servers call is between opening and closing the cache file
Writing == \E p \in AppProcs : rf[p].pc = "write"

\* the key/value pairs as they stand in the file, in order
TextItems ==
    [i \in 1..(Len(cache_json.text) - 2) |->
        <<cache_json.text[i + 1].k, cache_json.text[i + 1].v>>]

\* C19: whenever no writer has the cache file open, the file holds one
\* complete ranking as a call built it: a well-formed text in ascending order
\* of latency with no endpoint twice.
C19_WritesDoNotInterleave ==
    (cache_json.exists /\ ~Writing)
       => /\ JsonValid(cache_json.text)
          /\ Ascending(TextItems)
          /\ NoDuplicates(TextItems)

\* the host of a ranking key
HostOf(key) == key[2]

\* C20: in every ranking built by a ranking call, endpoints of equal mean
\* latency stand in ascending order of host, and the endpoint best_server
\* picks from it is the smallest host among those with the minimum latency.
C20_TieBreakByHost ==
    RankingBuilt
       => LET d == CallArgs.ranking
          IN /\ \A i, j \in 1..Len(d) :
                   (i < j /\ d[i][2] = d[j][2])
                      => HostOrd(HostOf(d[i][1])) < HostOrd(HostOf(d[j][1]))
             /\ d # <<>>
                   => \A i \in 1..Len(d) :
                         d[i][2] = MinVal(d)
                            => HostOrd(HostOf(BestOf(DictValue(d)).target))
                                  <= HostOrd(HostOf(d[i][1]))

====
